---- MODULE Spec2Model ----
(***************************************************************************)
(* A model of the job scraper: the text normalizer (utils/helpers.py),     *)
(* the fetch client, the two card extractors and the pagination driver     *)
(* (scrapers/job_scraper.py).                                              *)
(*                                                                         *)
(* Text is a sequence of one-character strings, so that the regular        *)
(* expressions of clean_text, str.strip, str.lower and the substring tests *)
(* of the job-type inference are computed character by character.          *)
(***************************************************************************)
EXTENDS Integers, Sequences, FiniteSets, TLC

VARIABLES
    site,        \* which subclass runs: "Indeed" or "LinkedIn"
    max_pages,   \* argument of scrape_job_listings
    pc,          \* position of the scrape: "loop", "attempt", "soup", "except", "done", "raised"
    page,        \* loop variable of scrape_job_listings
    jobs,        \* the aggregate list of scrape_job_listings
    attempt,     \* loop variable of _get_soup
    retry_delay, \* local of _get_soup
    soup,        \* what _get_soup returned to the driver
    exc,         \* the exception in flight to the driver's handler
    log,         \* history: what the _get_soup call of the current page did, in order
    fetchCalls,  \* history: the page index of every _get_soup call of the driver
    fetched,     \* history: per finished page, the cards of its document or what was caught
    escaped,     \* history: the exception that left scrape_job_listings, if any
    url,         \* argument of scrape_job_listings
    page_url,    \* history: the URL the driver passed to the current _get_soup call
    requested,   \* history: the URLs the GETs of the current _get_soup call were sent to
    nap,         \* history: the politeness sleep before the latest GET of the current call
    pause,       \* history: the driver's sleep since the page before finished, 0 if none
    gets,        \* history: the number of GETs sent since the scrape began
    input,       \* harness of the pure functions: the argument
    output,      \* harness of the pure functions: the result
    phase        \* harness of the pure functions: "idle", "ready" or "applied"

vars == <<site, max_pages, pc, page, jobs, attempt, retry_delay, soup, exc, log,
          fetchCalls, fetched, escaped, url, page_url, requested, nap, pause, gets,
          input, output, phase>>

timingVars == <<url, page_url, requested, nap, pause, gets>>

scrapeVars == <<site, max_pages, pc, page, jobs, attempt, retry_delay, soup, exc, log,
                fetchCalls, fetched, escaped, timingVars>>

harnessVars == <<input, output, phase>>

-----------------------------------------------------------------------------
(* Bounds of the model *)

MaxLen == 5          \* longest input of clean_text
MaxTitleWords == 2   \* most words of a card's title
MaxPages == 2        \* largest max_pages
MaxCards == 2        \* most job cards on one page

-----------------------------------------------------------------------------
(* Characters and Python's str methods *)

UpperSeq == <<"A","B","C","D","E","F","G","H","I","J","K","L","M",
              "N","O","P","Q","R","S","T","U","V","W","X","Y","Z">>
LowerSeq == <<"a","b","c","d","e","f","g","h","i","j","k","l","m",
              "n","o","p","q","r","s","t","u","v","w","x","y","z">>
Digits == {"0","1","2","3","4","5","6","7","8","9"}
Letters == {UpperSeq[i] : i \in 1..26} \cup {LowerSeq[i] : i \in 1..26}

\* \s of the re module
IsSpace(c) == c \in {" ", "\t", "\n", "\r"}
WordChars == Letters \cup Digits \cup {"_"}
\* \w of the re module
IsWord(c) == c \in WordChars

\* str.lower, one character
LowerChar(c) ==
    IF \E i \in 1..26 : UpperSeq[i] = c
    THEN LowerSeq[CHOOSE i \in 1..26 : UpperSeq[i] = c]
    ELSE c

\* str.lower
lower(s) == [i \in 1..Len(s) |-> LowerChar(s[i])]

RECURSIVE lstrip(_)
lstrip(s) == IF s # <<>> /\ IsSpace(Head(s)) THEN lstrip(Tail(s)) ELSE s

RECURSIVE rstrip(_)
rstrip(s) ==
    IF s # <<>> /\ IsSpace(s[Len(s)]) THEN rstrip(SubSeq(s, 1, Len(s) - 1)) ELSE s

\* str.strip
strip(s) == rstrip(lstrip(s))

\* the "in" operator on two strings: sub occurs in s as a substring
Contains(s, sub) ==
    \E i \in 1..(Len(s) - Len(sub) + 1) : SubSeq(s, i, i + Len(sub) - 1) = sub

-----------------------------------------------------------------------------
(* utils/helpers.py: clean_text *)

\* re.sub(r'\s+', ' ', text): every maximal run of whitespace becomes one space
RECURSIVE CollapseSpace(_)
CollapseSpace(s) ==
    IF s = <<>> THEN <<>>
    ELSE IF IsSpace(Head(s))
         THEN <<" ">> \o CollapseSpace(lstrip(s))
         ELSE <<Head(s)>> \o CollapseSpace(Tail(s))

\* the character class [^\w\s.,$] of the second substitution
IsSpecial(c) == ~(IsWord(c) \/ IsSpace(c) \/ c \in {".", ",", "$"})

\* re.sub(r'[^\w\s.,$]', '', text)
RemoveSpecial(s) == SelectSeq(s, LAMBDA c : ~IsSpecial(c))

\* The argument is [isStr, s]: s is the text when isStr, and str(text) when not.
clean_text(text) ==
    IF ~text.isStr
    THEN text.s
    ELSE strip(RemoveSpecial(CollapseSpace(text.s)))

Str(s) == [isStr |-> TRUE, s |-> s]

-----------------------------------------------------------------------------
(* Exceptions, by class name *)

NoExc == "none"
RequestExceptions == {"HTTPError", "ConnectionError", "Timeout"}
\* isinstance(e, requests.RequestException)
IsRequestException(e) == e \in RequestExceptions
\* isinstance(e, Exception)
Exceptions == RequestExceptions \cup {"AttributeError"}
IsException(e) == e \in Exceptions

-----------------------------------------------------------------------------
(* A job card: what each find() of the extractor returns on it.  A node    *)
(* that is present carries its text (Tag.text, a string, possibly empty);  *)
(* an absent node is the None that find() returns.                         *)

AbsentNode == [present |-> FALSE, text |-> <<>>]
Node(t) == [present |-> TRUE, text |-> t]

EmptyMapping == [k \in {} |-> <<>>]

NotSpecified == <<"N","o","t"," ","s","p","e","c","i","f","i","e","d">>

kwContract == <<"c","o","n","t","r","a","c","t">>
kwContractor == <<"c","o","n","t","r","a","c","t","o","r">>
kwPartTime == <<"p","a","r","t","-","t","i","m","e">>
kwIntern == <<"i","n","t","e","r","n">>
kwTemporary == <<"t","e","m","p","o","r","a","r","y">>

\* "x.text" on the result of find(): None has no attribute text
TextRaises(node) == ~node.present

TruthyWhenNonEmpty(node) == node.present /\ node.text # <<>>

\* truth value of the result of find(): a Tag is true whatever it holds
Truthy(node) == node.present

\* the optional salary node of both extractors
SalaryText(node) == IF Truthy(node) THEN strip(node.text) ELSE NotSpecified

JobTypePartTimeFirst(title) ==
    LET title_lower == lower(title) IN
    IF Contains(title_lower, kwPartTime) THEN "Part-time"
    ELSE IF \E term \in {kwContract, kwContractor} : Contains(title_lower, term)
         THEN "Contract"
    ELSE IF Contains(title_lower, kwIntern) THEN "Internship"
    ELSE IF Contains(title_lower, kwTemporary) THEN "Temporary"
    ELSE "Full-time"

\* LinkedInScraper._extract_job_data, the if/elif chain over title.lower()
JobType(title) ==
    LET title_lower == lower(title) IN
    IF \E term \in {kwContract, kwContractor} : Contains(title_lower, term)
    THEN "Contract"
    ELSE IF Contains(title_lower, kwPartTime) THEN "Part-time"
    ELSE IF Contains(title_lower, kwIntern) THEN "Internship"
    ELSE IF Contains(title_lower, kwTemporary) THEN "Temporary"
    ELSE "Full-time"

\* The body of the try block: [exc, value], exc the exception it raised.
TryExtract(which, card) ==
    IF TextRaises(card.title) \/ TextRaises(card.company) \/ TextRaises(card.location)
    THEN [exc |-> "AttributeError", value |-> EmptyMapping]
    ELSE LET title == strip(card.title.text)
             company == strip(card.company.text)
             location == strip(card.location.text)
             salary == SalaryText(card.salary)
         IN IF which = "Indeed"
            THEN [exc |-> NoExc,
                  value |-> [title |-> clean_text(Str(title)),
                             company |-> clean_text(Str(company)),
                             location |-> clean_text(Str(location)),
                             salary |-> clean_text(Str(salary)),
                             source |-> "Indeed"]]
            ELSE [exc |-> NoExc,
                  value |-> [title |-> clean_text(Str(title)),
                             company |-> clean_text(Str(company)),
                             location |-> clean_text(Str(location)),
                             salary |-> clean_text(Str(salary)),
                             job_type |-> JobType(title),
                             source |-> "LinkedIn"]]

\* "except Exception" of the extractors
ExtractCatches(e) == IsException(e)

\* IndeedScraper._extract_job_data and LinkedInScraper._extract_job_data
extract_job_data(which, card) ==
    LET r == TryExtract(which, card) IN
    IF r.exc # NoExc /\ ExtractCatches(r.exc)
    THEN [exc |-> NoExc, value |-> EmptyMapping]
    ELSE r

-----------------------------------------------------------------------------
(* Inputs of the pure functions *)

CleanAlphabet == {"a", "_", " ", "\t", "$", "-"}

RECURSIVE Strings(_, _)
Strings(alphabet, n) ==
    IF n = 0 THEN {<<>>}
    ELSE LET shorter == Strings(alphabet, n - 1) IN
         shorter \cup {Append(s, c) : s \in shorter, c \in alphabet}

CleanInputs == [isStr : BOOLEAN, s : Strings(CleanAlphabet, MaxLen)]

TitleWords ==
    { <<"C","o","n","t","r","a","c","t">>,
      <<"P","A","R","T","-","T","I","M","E">>,
      <<"I","n","t","e","r","n">>,
      <<"T","e","m","p","o","r","a","r","y">>,
      <<"E","n","g","i","n","e","e","r">>,
      <<"A","n","a","l","y","s","t">> }

RECURSIVE Titles(_)
Titles(n) ==
    IF n = 1 THEN TitleWords
    ELSE LET shorter == Titles(n - 1) IN
         shorter \cup {t \o <<" ">> \o w : t \in shorter, w \in TitleWords}

TitleTexts ==
    Titles(MaxTitleWords)
        \cup { <<>>, <<" ">>, <<"\n"," ","I","n","t","e","r","n"," ","\n">> }

Acme == <<"A","c","m","e">>
NewYork == <<"N","Y">>
SalaryRange == <<"$","5"," ","-"," ","$","9">>

ExtractCards ==
    [ title : {AbsentNode} \cup {Node(t) : t \in TitleTexts},
      company : {AbsentNode, Node(Acme), Node(<<>>)},
      location : {AbsentNode, Node(NewYork)},
      salary : {AbsentNode, Node(SalaryRange), Node(<<>>)} ]

Sites == {"Indeed", "LinkedIn"}

-----------------------------------------------------------------------------
(* The scrape at rest, for the specifications of the pure functions *)

ScrapeIdle ==
    /\ site = "Indeed"
    /\ max_pages = 0
    /\ pc = "idle"
    /\ page = 0
    /\ jobs = <<>>
    /\ attempt = 0
    /\ retry_delay = 0
    /\ soup = <<>>
    /\ exc = "none"
    /\ log = <<>>
    /\ fetchCalls = <<>>
    /\ fetched = <<>>
    /\ escaped = NoExc
    /\ url = <<>>
    /\ page_url = <<>>
    /\ requested = {}
    /\ nap = 0
    /\ pause = 0
    /\ gets = 0

(* clean_text applied to every input of CleanInputs *)

InitClean ==
    /\ ScrapeIdle
    /\ input \in CleanInputs
    /\ output = <<>>
    /\ phase = "ready"

ApplyClean ==
    /\ phase = "ready"
    /\ output' = clean_text(input)
    /\ phase' = "applied"
    /\ UNCHANGED <<input, scrapeVars>>

NextClean == ApplyClean

SpecClean == InitClean /\ [][NextClean]_vars

(* _extract_job_data of either subclass applied to every card of ExtractCards *)

InitExtract ==
    /\ ScrapeIdle
    /\ input \in [which : Sites, card : ExtractCards]
    /\ output = <<>>
    /\ phase = "ready"

ApplyExtract ==
    /\ phase = "ready"
    /\ output' = extract_job_data(input.which, input.card)
    /\ phase' = "applied"
    /\ UNCHANGED <<input, scrapeVars>>

NextExtract == ApplyExtract

SpecExtract == InitExtract /\ [][NextExtract]_vars

-----------------------------------------------------------------------------
(* scrapers/job_scraper.py: the fetch client and the pagination driver *)

OneMoreRetry == 3 + 1

max_retries == 3
initial_retry_delay == 5

\* what soup holds: a parsed document, by the job cards find_all finds in it, or None
Document(cards) == [isNone |-> FALSE, cards |-> cards]
NoneValue == [isNone |-> TRUE, cards |-> <<>>]

DriverCards ==
    { [title |-> Node(<<"I","n","t","e","r","n">>), company |-> Node(Acme),
       location |-> Node(NewYork), salary |-> Node(SalaryRange)],
      [title |-> Node(<<"A","n","a","l","y","s","t">>), company |-> Node(Acme),
       location |-> Node(NewYork), salary |-> AbsentNode],
      [title |-> AbsentNode, company |-> Node(Acme),
       location |-> Node(NewYork), salary |-> AbsentNode] }

\* The pages of the model: up to n cards of DriverCards, no card listed twice.
RECURSIVE CardLists(_)
CardLists(n) ==
    IF n = 0 THEN {<<>>}
    ELSE LET shorter == CardLists(n - 1) IN
         shorter \cup { ext \in {Append(cs, c) : cs \in shorter, c \in DriverCards} :
                           \A i, j \in 1..Len(ext) : ext[i] = ext[j] => i = j }

\* What one session.get can do: raise, or return a response with a status and a body.
GetOutcomes ==
    {[exc |-> e, status |-> 0, cards |-> <<>>] : e \in {"ConnectionError", "Timeout"}}
        \cup {[exc |-> NoExc, status |-> st, cards |-> <<>>] : st \in {204, 304, 404, 503}}
        \cup {[exc |-> NoExc, status |-> 200, cards |-> cs] : cs \in CardLists(MaxCards)}

\* response.raise_for_status()
raise_for_status(status) ==
    IF 400 <= status /\ status < 600 THEN "HTTPError" ELSE NoExc

\* what the try body of one attempt raises: session.get, then raise_for_status
AttemptExc(outcome) ==
    IF outcome.exc # NoExc THEN outcome.exc ELSE raise_for_status(outcome.status)

\* "except requests.RequestException" of _get_soup
GetSoupCatches(e) == IsRequestException(e)

Event(ev, what, n) == [ev |-> ev, what |-> what, n |-> n]

\* the search URL the caller passes, with its query already in it
SearchUrl == <<"h","t","t","p",":","/","/","j","/","s","?","q","=","p","y">>

Init ==
    /\ site \in Sites
    /\ max_pages \in 0..MaxPages
    /\ pc = "loop"
    /\ page = 0
    /\ jobs = <<>>
    /\ attempt = 0
    /\ retry_delay = 0
    /\ soup = NoneValue
    /\ exc = NoExc
    /\ log = <<>>
    /\ fetchCalls = <<>>
    /\ fetched = <<>>
    /\ escaped = NoExc
    /\ url = SearchUrl
    /\ page_url = <<>>
    /\ requested = {}
    /\ nap = 0
    /\ pause = 0
    /\ gets = 0
    /\ input = <<>>
    /\ output = <<>>
    /\ phase = "idle"

CallDelayCarried(left) == IF left = 0 THEN initial_retry_delay ELSE left

\* retry_delay = 5 at the head of _get_soup; left is what the call before left behind
CallDelay(left) == initial_retry_delay

\* for page in range(max_pages): ... soup = self._get_soup(page_url), up to the
\* first attempt of _get_soup
EnterPage ==
    /\ pc = "loop"
    /\ page < max_pages
    /\ attempt' = 0
    /\ retry_delay' = CallDelay(retry_delay)
    /\ log' = <<>>
    /\ fetchCalls' = Append(fetchCalls, page)
    /\ pc' = "attempt"
    /\ UNCHANGED <<site, max_pages, page, jobs, soup, exc, fetched, escaped, harnessVars>>

PreRequestHeadersOnce(n) ==
    IF n = 0 THEN <<Event("headers", "", 0), Event("polite", "", 0)>>
    ELSE <<Event("polite", "", 0)>>

\* what iteration n of _get_soup does before its GET: self._update_headers(), then
\* time.sleep(random.uniform(2, 5))
PreRequest(n) == <<Event("headers", "", 0), Event("polite", "", 0)>>

\* One iteration of the for loop of _get_soup, with what session.get does in it.
Attempt(outcome) ==
    /\ pc = "attempt"
    /\ LET raised == AttemptExc(outcome)
           sent == log \o PreRequest(attempt)
                       \o << Event("get", IF raised # NoExc THEN "raised"
                                          ELSE IF outcome.status = 200 THEN "ok"
                                          ELSE "not200", 0) >>
       IN
       IF raised # NoExc
       THEN IF GetSoupCatches(raised)
            THEN IF attempt < max_retries - 1
                 THEN /\ log' = Append(sent, Event("backoff", "", retry_delay))
                      /\ retry_delay' = retry_delay * 2
                      /\ attempt' = attempt + 1
                      /\ UNCHANGED <<pc, soup, exc>>
                 ELSE /\ log' = Append(sent, Event("raise", "", 0))
                      /\ exc' = raised
                      /\ pc' = "except"
                      /\ UNCHANGED <<retry_delay, attempt, soup>>
            ELSE /\ log' = Append(sent, Event("raise", "", 0))
                 /\ exc' = raised
                 /\ pc' = "except"
                 /\ UNCHANGED <<retry_delay, attempt, soup>>
       ELSE IF outcome.status = 200
            THEN /\ log' = Append(sent, Event("return", "document", 0))
                 /\ soup' = Document(outcome.cards)
                 /\ pc' = "soup"
                 /\ UNCHANGED <<retry_delay, attempt, exc>>
            ELSE IF attempt + 1 < max_retries
                 THEN /\ log' = sent
                      /\ attempt' = attempt + 1
                      /\ UNCHANGED <<pc, retry_delay, soup, exc>>
                 ELSE /\ log' = Append(sent, Event("return", "None", 0))
                      /\ soup' = NoneValue
                      /\ pc' = "soup"
                      /\ UNCHANGED <<retry_delay, attempt, exc>>
    /\ UNCHANGED <<site, max_pages, page, jobs, fetchCalls, fetched, escaped, harnessVars>>

KeepAll(job_data) == TRUE

\* "if job_data:" of the driver: an empty dict is false
Keep(job_data) == job_data # EmptyMapping

AggregateInFront(list, job_data) == <<job_data>> \o list

\* jobs.append(job_data)
Aggregate(list, job_data) == Append(list, job_data)

\* The for loop over job_elements: [exc, jobs], exc what an extraction raised.
RECURSIVE ScrapeCards(_, _, _)
ScrapeCards(which, job_elements, list) ==
    IF job_elements = <<>> THEN [exc |-> NoExc, jobs |-> list]
    ELSE LET r == extract_job_data(which, Head(job_elements)) IN
         IF r.exc # NoExc THEN [exc |-> r.exc, jobs |-> list]
         ELSE ScrapeCards(which, Tail(job_elements),
                          IF Keep(r.value) THEN Aggregate(list, r.value) ELSE list)

AfterFailureSamePage(p) == p

\* the driver's next page index after a page that failed ("continue")
AfterFailure(p) == p + 1

\* The rest of the try body of the driver, from soup.find_all to the sleep.
ProcessPage ==
    /\ pc = "soup"
    /\ IF soup.isNone
       THEN /\ exc' = "AttributeError"
            /\ pc' = "except"
            /\ UNCHANGED <<jobs, page, fetched, soup, log>>
       ELSE LET r == ScrapeCards(site, soup.cards, jobs) IN
            /\ jobs' = r.jobs
            /\ IF r.exc # NoExc
               THEN /\ exc' = r.exc
                    /\ pc' = "except"
                    /\ UNCHANGED <<page, fetched, soup, log>>
               ELSE /\ page' = page + 1
                    /\ pc' = "loop"
                    /\ fetched' = Append(fetched, [ok |-> TRUE, cards |-> soup.cards,
                                                 caught |-> NoExc])
                    /\ soup' = NoneValue
                    /\ log' = <<>>
                    /\ UNCHANGED exc
    /\ UNCHANGED <<site, max_pages, attempt, retry_delay, fetchCalls, escaped, harnessVars>>

DriverCatchesRequestErrors(e) == IsRequestException(e)

\* "except Exception" of the driver
DriverCatches(e) == IsException(e)

\* except Exception as e: log, continue
PageExcept ==
    /\ pc = "except"
    /\ IF DriverCatches(exc)
       THEN /\ page' = AfterFailure(page)
            /\ pc' = "loop"
            /\ fetched' = Append(fetched, [ok |-> FALSE, cards |-> <<>>, caught |-> exc])
            /\ exc' = NoExc
            /\ soup' = NoneValue
            /\ log' = <<>>
            /\ UNCHANGED escaped
       ELSE /\ escaped' = exc
            /\ pc' = "raised"
            /\ UNCHANGED <<page, fetched, exc, soup, log>>
    /\ UNCHANGED <<site, max_pages, jobs, attempt, retry_delay, fetchCalls, harnessVars>>

\* return jobs
Return ==
    /\ pc = "loop"
    /\ page >= max_pages
    /\ pc' = "done"
    /\ UNCHANGED <<site, max_pages, page, jobs, attempt, retry_delay, soup, exc, log,
                   fetchCalls, fetched, escaped, harnessVars>>

\* The scrape with the pages varied; what it sleeps and requests is not recorded.
Next ==
    \/ EnterPage /\ UNCHANGED timingVars
    \/ \E outcome \in GetOutcomes : Attempt(outcome) /\ UNCHANGED timingVars
    \/ ProcessPage /\ UNCHANGED timingVars
    \/ PageExcept /\ UNCHANGED timingVars
    \/ Return /\ UNCHANGED timingVars

Spec == Init /\ [][Next]_vars

-----------------------------------------------------------------------------
(* The scrape with what it requests and sleeps recorded (specification       *)
(* SpecTimed).  The sleeps are varied here and the pages are not: every      *)
(* document of this specification holds no job card.                         *)

\* random.uniform(a, b): a duration from a to b, in whole seconds here
uniform(a, b) == a..b

\* time.sleep(random.uniform(2, 5)) of _get_soup
PoliteDelays == uniform(2, 5)

\* time.sleep(random.uniform(1, 3)) of the driver
PageDelays == uniform(1, 3)

PageSizeTen(which) == 10

\* the offset per page: page * 10 for Indeed, page * 25 for LinkedIn
PageSize(which) == IF which = "Indeed" THEN 10 ELSE 25

DigitSeq == <<"0","1","2","3","4","5","6","7","8","9">>

\* a non-negative integer as the f-string writes it
RECURSIVE Decimal(_)
Decimal(n) ==
    IF n < 10 THEN <<DigitSeq[n + 1]>>
    ELSE Decimal(n \div 10) \o <<DigitSeq[(n % 10) + 1]>>

StartParam == <<"&","s","t","a","r","t","=">>

\* page_url = f"{url}&start={page * 10}"
PageUrl(which, base, p) == base \o StartParam \o Decimal(p * PageSize(which))

EmptyPageOutcomes == {o \in GetOutcomes : o.cards = <<>>}

TimedEnterPage ==
    /\ EnterPage
    /\ page_url' = PageUrl(site, url, page)
    /\ requested' = {}
    /\ UNCHANGED <<url, nap, pause, gets>>

\* d is what random.uniform(2, 5) gave this iteration
TimedAttempt(outcome, d) ==
    /\ Attempt(outcome)
    /\ nap' = d
    /\ requested' = requested \cup {page_url}
    /\ gets' = gets + 1
    /\ UNCHANGED <<url, page_url, pause>>

\* d is what random.uniform(1, 3) gives when the try body gets as far as its sleep
TimedProcessPage(d) ==
    /\ ProcessPage
    /\ IF pc' = "loop"
       THEN pause' = d /\ nap' = 0
       ELSE UNCHANGED <<pause, nap>>
    /\ UNCHANGED <<url, page_url, requested, gets>>

\* the except branch goes on to the next page without a sleep
TimedPageExcept ==
    /\ PageExcept
    /\ pause' = 0
    /\ nap' = 0
    /\ UNCHANGED <<url, page_url, requested, gets>>

TimedReturn == Return /\ UNCHANGED timingVars

NextTimed ==
    \/ TimedEnterPage
    \/ \E outcome \in EmptyPageOutcomes, d \in PoliteDelays : TimedAttempt(outcome, d)
    \/ \E d \in PageDelays : TimedProcessPage(d)
    \/ TimedPageExcept
    \/ TimedReturn

SpecTimed == Init /\ [][NextTimed]_vars

\* The scrape is one sequential call: as long as a step is left it takes it, every
\* GET and every sleep being assumed to return.
SpecTimedFair == SpecTimed /\ WF_vars(NextTimed)

-----------------------------------------------------------------------------
(* Properties of the scrape (specification Spec) *)

AllPagesFailed == \A i \in 1..Len(fetched) : ~fetched[i].ok

\* C1: scrape_job_listings never raises to its caller, whatever max_pages >= 0 is and
\* whatever each request does; it returns a list, and the empty list when the fetch of
\* every page failed.
C1_ScrapeNeverRaises ==
    /\ pc # "raised"
    /\ escaped = NoExc
    /\ pc = "done" =>
          /\ DOMAIN jobs = 1..Len(jobs)
          /\ Len(fetched) = max_pages
          /\ (AllPagesFailed => jobs = <<>>)

\* Two pages, both failed, one by the None that _get_soup returned and one by an
\* exhausted retry budget, and the scrape returned.
C1_Witness ==
    /\ pc = "done"
    /\ max_pages = 2
    /\ Len(fetched) = 2
    /\ fetched[1].caught = "AttributeError"
    /\ fetched[2].caught = "Timeout"
    /\ jobs = <<>>

GetIndexes == {i \in 1..Len(log) : log[i].ev = "get"}
LastEvent == log[Len(log)]

\* C2: every _get_soup call ends by returning a document parsed from a status-200
\* response, or by raising after max_retries failed attempts; an attempt that is not a
\* success is a failed attempt, and the call never returns without a document.
C2_FetchReturnsDocumentOrRaises ==
    /\ pc = "soup" =>
          /\ ~soup.isNone
          /\ \E i \in GetIndexes : log[i].what = "ok"
    /\ (pc = "except" /\ log # <<>> /\ LastEvent.ev = "raise") =>
          Cardinality(GetIndexes) = max_retries
    /\ Cardinality({i \in GetIndexes : log[i].what # "ok"}) = max_retries =>
          (pc = "except" /\ LastEvent.ev = "raise")

RecordFields(which) ==
    IF which = "Indeed"
    THEN {"title", "company", "location", "salary", "source"}
    ELSE {"title", "company", "location", "salary", "job_type", "source"}

\* C3: every element of the aggregate list carries title, company, location, salary
\* and source (and job_type for LinkedIn); the empty mapping of a failed extraction is
\* never in the list.
C3_OnlyFullRecords ==
    \A i \in 1..Len(jobs) :
        /\ jobs[i] # EmptyMapping
        /\ DOMAIN jobs[i] = RecordFields(site)
        /\ jobs[i].source = site

\* A processed page held a card whose extraction failed, and the list is not empty.
C3_Witness ==
    /\ jobs # <<>>
    /\ \E i \in 1..Len(fetched) :
          /\ fetched[i].ok
          /\ \E j \in 1..Len(fetched[i].cards) : ~fetched[i].cards[j].title.present

\* the non-empty extraction results of the cards of one finished page, in card order
PageRecords(which, entry) ==
    IF ~entry.ok THEN <<>>
    ELSE SelectSeq([j \in 1..Len(entry.cards) |->
                        extract_job_data(which, entry.cards[j]).value],
                   LAMBDA r : r # EmptyMapping)

RECURSIVE ConcatPages(_, _)
ConcatPages(which, entries) ==
    IF entries = <<>> THEN <<>>
    ELSE ConcatPages(which, SubSeq(entries, 1, Len(entries) - 1))
             \o PageRecords(which, entries[Len(entries)])

\* C4: the list is the concatenation, over the page indices in increasing order, of the
\* non-empty extraction results of the cards of each page whose fetch succeeded, in
\* card order; a failed page contributes nothing and disturbs no other page's records.
C4_PageThenCardOrder ==
    pc \in {"loop", "done"} =>
        /\ Len(fetched) = page
        /\ jobs = ConcatPages(site, fetched)

\* Page 0 gave two different records and page 1 failed.
C4_Witness ==
    /\ pc = "done"
    /\ Len(fetched) = 2
    /\ fetched[1].ok
    /\ ~fetched[2].ok
    /\ Len(jobs) = 2
    /\ jobs[1] # jobs[2]

\* C5: with max_pages = N the driver calls _get_soup at most N times, once per page
\* index 0..N-1 in increasing order; a page that failed is not fetched again.
C5_OneFetchPerPage ==
    /\ Len(fetchCalls) <= max_pages
    /\ \A i \in 1..Len(fetchCalls) : fetchCalls[i] = i - 1
    /\ pc = "done" => Len(fetchCalls) = max_pages

\* Page 0 failed and the scrape went on to page 1 and returned.
C5_Witness ==
    /\ pc = "done"
    /\ fetchCalls = <<0, 1>>
    /\ ~fetched[1].ok

\* the number of GETs that raised among the first i events of the log
RaisedUpTo(i) == Cardinality({j \in GetIndexes : j <= i /\ log[j].what = "raised"})

\* C10: one _get_soup call makes at most 3 GETs; the first failed attempt is followed
\* by a backoff sleep of 5 seconds, the second by one of 10 seconds, and the third by
\* no sleep: the failure is raised to the caller.  (A failed attempt is read here as
\* one whose GET raised; an attempt answered 204 or 304 breaks the schedule too.)
C10_BackoffSchedule ==
    /\ Cardinality(GetIndexes) <= max_retries
    /\ \A i \in GetIndexes :
          log[i].what = "raised" =>
              /\ i < Len(log)
              /\ RaisedUpTo(i) = 1 => log[i + 1] = Event("backoff", "", 5)
              /\ RaisedUpTo(i) = 2 => log[i + 1] = Event("backoff", "", 10)
              /\ RaisedUpTo(i) = 3 => log[i + 1] = Event("raise", "", 0)

BackoffIndexes == {i \in 1..Len(log) : log[i].ev = "backoff"}

\* C15: the retry budget and the backoff delay belong to one _get_soup call: whatever
\* the earlier pages did, the call of each page starts at attempt 0 with a delay of 5
\* seconds, counts only its own GETs, and its first backoff sleep is 5 seconds.
C15_RetryStatePerCall ==
    /\ (pc = "attempt" /\ log = <<>>) => (attempt = 0 /\ retry_delay = 5)
    /\ pc = "attempt" => attempt = Cardinality(GetIndexes)
    /\ \A i \in BackoffIndexes :
          (\A j \in BackoffIndexes : i <= j) => log[i].n = 5
    /\ \A i \in BackoffIndexes :
          (\E j \in BackoffIndexes : j < i) => log[i].n = 10

\* Page 0 used up its three attempts, and the call of page 1 slept 5 then 10 seconds
\* and made its third GET.
C15_Witness ==
    /\ page = 1
    /\ fetched[1].caught \in RequestExceptions
    /\ Cardinality(GetIndexes) = 3
    /\ \E i, j \in BackoffIndexes : i < j /\ log[i].n = 5 /\ log[j].n = 10

-----------------------------------------------------------------------------
(* Properties of the requests and the sleeps (specification SpecTimed) *)

\* C11: every GET, the first of a call and every retry, comes right after a
\* regeneration of the headers and then a politeness sleep of 2 to 5 seconds, both
\* after the GET before it.
C11_HeadersThenSleepBeforeGet ==
    /\ \A i \in GetIndexes :
          /\ i >= 3
          /\ log[i - 2].ev = "headers"
          /\ log[i - 1].ev = "polite"
    /\ GetIndexes # {} => (2 <= nap /\ nap <= 5)

\* The third GET of the call of page 1 was sent, after a sleep of 5 seconds.
C11_Witness ==
    /\ page = 1
    /\ Cardinality(GetIndexes) = 3
    /\ nap = 5

\* C12: the fetches of two consecutive page indices are separated by the driver's
\* sleep of 1 to 3 seconds: when the fetch of page i + 1 starts, the driver has slept
\* that long since it finished page i.
C12_SleepBetweenPages ==
    (pc = "attempt" /\ page > 0 /\ log = <<>>) => (1 <= pause /\ pause <= 3)

IndeedStarts == << <<"0">>, <<"1","0">>, <<"2","0">>, <<"3","0">>, <<"4","0">> >>
LinkedInStarts == << <<"0">>, <<"2","5">>, <<"5","0">>, <<"7","5">>, <<"1","0","0">> >>

\* C13: the URL passed to _get_soup for page i is the caller's URL followed by
\* &start= and i * 10 for Indeed, i * 25 for LinkedIn (0 for page 0), and every GET
\* of the call, retries included, is sent to that URL.
C13_PageUrl ==
    pc \in {"attempt", "soup", "except"} =>
        /\ page_url = url \o StartParam
                          \o (IF site = "Indeed" THEN IndeedStarts[page + 1]
                              ELSE LinkedInStarts[page + 1])
        /\ requested \subseteq {page_url}
        /\ GetIndexes # {} => requested = {page_url}

\* The LinkedIn scrape sent three GETs for page 1, all to ...&start=25.
C13_Witness ==
    /\ site = "LinkedIn"
    /\ page = 1
    /\ Cardinality(GetIndexes) = 3
    /\ requested = {url \o StartParam \o <<"2","5">>}

\* C14: every GET and every sleep returning, scrape_job_listings(url, N) ends, and it
\* sends at most 3 * N GETs in all.
C14_TerminatesWithinBudget ==
    /\ [](gets <= 3 * max_pages)
    /\ <>(pc = "done")

\* A scrape of two pages returned after six GETs.
C14_Witness ==
    /\ pc = "done"
    /\ max_pages = 2
    /\ gets = 6

-----------------------------------------------------------------------------
(* Properties of the extractors (specification SpecExtract) *)

RequiredFields == {"title", "company", "location"}

NodeMissing(card) == \E f \in RequiredFields : ~card[f].present
\* a required node is there and holds no text
TextMissing(card) == \E f \in RequiredFields : card[f].present /\ card[f].text = <<>>

\* C6: _extract_job_data never raises; on a card in which a required sub-node is
\* missing, or in which the text of a required sub-node is missing, it returns the
\* empty mapping.
C6_EmptyOnMissingNodeOrText ==
    phase = "applied" =>
        /\ output.exc = NoExc
        /\ (NodeMissing(input.card) \/ TextMissing(input.card)) =>
              output.value = EmptyMapping

\* the normalized text of a node that is present
Normalized(node) == clean_text(Str(strip(node.text)))

\* C7: on a card with title, company and location the extractor returns a record with
\* these fields taken from the card; its salary is "Not specified" when the salary
\* node is absent and the normalized text of the salary node when it is present.
C7_SalaryDefault ==
    (phase = "applied" /\ ~NodeMissing(input.card)) =>
        /\ output.exc = NoExc
        /\ output.value # EmptyMapping
        /\ output.value.title = Normalized(input.card.title)
        /\ output.value.company = Normalized(input.card.company)
        /\ output.value.location = Normalized(input.card.location)
        /\ output.value.source = input.which
        /\ ~input.card.salary.present => output.value.salary = NotSpecified
        /\ input.card.salary.present =>
              output.value.salary = Normalized(input.card.salary)

\* A LinkedIn card that lacks only the salary node was extracted.
C7_Witness ==
    /\ phase = "applied"
    /\ input.which = "LinkedIn"
    /\ ~NodeMissing(input.card)
    /\ ~input.card.salary.present
    /\ output.value.salary = NotSpecified
    /\ output.value.company = Acme

\* the title as the inference reads it
TitleLower == lower(strip(input.card.title.text))
HasContract == Contains(TitleLower, kwContract) \/ Contains(TitleLower, kwContractor)
HasPartTime == Contains(TitleLower, kwPartTime)
HasIntern == Contains(TitleLower, kwIntern)
HasTemporary == Contains(TitleLower, kwTemporary)

\* C9: the LinkedIn extractor infers job_type from the title, case-insensitively and
\* with the precedence contract > part-time > intern(ship) > temporary; a title with
\* none of the keywords gives "Full-time".
C9_JobTypePrecedence ==
    (phase = "applied" /\ input.which = "LinkedIn" /\ ~NodeMissing(input.card)) =>
        LET job_type == output.value.job_type IN
        /\ HasContract => job_type = "Contract"
        /\ (~HasContract /\ HasPartTime) => job_type = "Part-time"
        /\ (~HasContract /\ ~HasPartTime /\ HasIntern) => job_type = "Internship"
        /\ (~HasContract /\ ~HasPartTime /\ ~HasIntern /\ HasTemporary) =>
              job_type = "Temporary"
        /\ (~HasContract /\ ~HasPartTime /\ ~HasIntern /\ ~HasTemporary) =>
              job_type = "Full-time"

\* A title with a contract term and part-time in it, in capitals, came out "Contract".
C9_Witness ==
    /\ phase = "applied"
    /\ input.which = "LinkedIn"
    /\ ~NodeMissing(input.card)
    /\ HasContract
    /\ HasPartTime
    /\ Contains(strip(input.card.title.text), <<"P","A","R","T">>)
    /\ output.value.job_type = "Contract"

-----------------------------------------------------------------------------
(* Properties of the text normalizer (specification SpecClean) *)

\* C8: for every input, a string or the string form of a non-string, the output of
\* clean_text has no two consecutive whitespace characters, no leading or trailing
\* whitespace, and only letters, digits, underscore, whitespace, comma, period and $.
C8_CleanOutput ==
    phase = "applied" =>
        /\ \A i \in 1..(Len(output) - 1) : ~(IsSpace(output[i]) /\ IsSpace(output[i + 1]))
        /\ output # <<>> => (~IsSpace(output[1]) /\ ~IsSpace(output[Len(output)]))
        /\ \A i \in 1..Len(output) : ~IsSpecial(output[i])

====
